---- MODULE Spec2Model ----
\* far.vim, rplugin/python3/far/sources/shell.py: the chunked process runner
\* (class MultiProc) and the drain loop of search().
EXTENDS Integers, Sequences, FiniteSets, TLC

\* ------------------------------------------------------------------ bounds
MaxFiles == 3
MaxOut == 2
MaxErr == 1
MaxLimit == 2
\* argument-list transfer: the units of the file list, the units a pipe
\* holds, and the units one run of the search command prints
MaxData == 6
PipeCap == 2
MaxRunOutput == 3
\* args['max_columns']
MaxColumns == 5
\* submatch expansion: ctx['limit']
MaxExpandLimit == 4
\* output pipes: the number of writes of a child
MaxScript == 5
\* pattern normalizer: len(pattern) and len(cmdargs)
MaxPattern == 4
MaxFlags == 2

\* ------------------------------------------------------- program constants
\* self.ARG_MAX
ARG_MAX == 30000
\* Python's None, as the value of MultiProc.returncode and of poll()
None == -1
\* Python's None, as the value of MultiProc.proc (children are numbered from 1)
NoProc == 0
\* b'', what readline() returns at end of file
EOF == <<>>

\* Lengths len(f) of the file names, chosen around ARG_MAX: with a short base
\* command many files of length 1 fit in one chunk, two of 14990 do, and one of
\* 29995 does not fit even alone.
FileLens == {1, 14990, 29995}
\* Base commands, as the sequence of len(arg): a short one and one that
\* leaves room for a single short file only.
Cmds == {<<2, 5>>, <<2, 29980>>}

VARIABLES
    mp,         \* the MultiProc object: cmd, files, file_idx, proc, returncode, all_stderr
    children,   \* the child processes spawned so far, in spawn order
    readLog,    \* the non-empty values readline() has returned to the consumer
    lastRead,   \* the value of the last readline() call
    lastPoll,   \* the value of the last poll() call
    pc,         \* where search() is: "start", "drain", "finish", "returned", "raised"
    ctx,        \* search()'s ctx and args: the inputs of the invocation
    files,      \* the file list the glob step resolved
    proc,       \* the process object of search(): "none", "Popen" or "MultiProc"
    limit,      \* the remaining limit
    result,     \* the accumulated file groups, in insertion order
    fileText,   \* the text of the matching lines of the searched files
    termFailed, \* proc.terminate() was called and raised
    ret,        \* what search() returned, or the exception it raised and the
                \* kind of line it raised at
    pipes,      \* the pipes between search() and its child: stdin and stdout
                \* of xargs in argument-list transfer, stdout and stderr of a
                \* search child in the drain loop
    norm        \* pattern normalizer: source, pattern, cmdargs and case_sensitive
                \* of the invocation, and how far lines 123-186 have run

mpVars == <<mp, children, readLog, lastRead, lastPoll>>
drainVars == <<pc, ctx, files, proc, limit, result, fileText, termFailed, ret>>
searchVars == <<drainVars, pipes, norm>>
vars == <<mp, children, readLog, lastRead, lastPoll,
          pc, ctx, files, proc, limit, result, fileText, termFailed, ret, pipes,
          norm>>

\* ------------------------------------------------------ child processes
\* What a search child prints for one file: f.out lines on stdout and f.err
\* lines on stderr, each identified by the file and its number.
FileOut(f) == [k \in 1..f.out |-> <<"out", f.id, k>>]
FileErr(f) == [k \in 1..f.err |-> <<"err", f.id, k>>]

RECURSIVE ChunkStdout(_)
ChunkStdout(chunk) ==
    IF chunk = <<>> THEN <<>> ELSE FileOut(Head(chunk)) \o ChunkStdout(Tail(chunk))

RECURSIVE ChunkStderr(_)
ChunkStderr(chunk) ==
    IF chunk = <<>> THEN <<>> ELSE FileErr(Head(chunk)) \o ChunkStderr(Tail(chunk))

\* subprocess.Popen(current_cmd, ..., stdout=PIPE, stderr=PIPE): a new child
\* working on the files of `chunk`; nothing of its output has been read.
Popen(chunk) ==
    [chunk |-> chunk,
     stdout |-> ChunkStdout(chunk), pos |-> 0,
     stderr |-> ChunkStderr(chunk), errpos |-> 0,
     exited |-> FALSE, waited |-> FALSE, terminated |-> FALSE]

\* ------------------------------------------------------------ MultiProc
\* cmd_len = sum(len(arg) + 1 for arg in current_cmd)
RECURSIVE CmdLen(_)
CmdLen(cmd) == IF cmd = <<>> THEN 0 ELSE Head(cmd) + 1 + CmdLen(Tail(cmd))

\* A chunk loop that drops a file that does not fit although the chunk is
\* still empty (the cursor advances, the file is not appended).
RECURSIVE ChunkLoopDropsOversized(_, _, _, _)
ChunkLoopDropsOversized(fs, file_idx, cmd_len, chunk) ==
    IF file_idx < Len(fs)
    THEN LET f == fs[file_idx + 1]
             arg_len == f.len + 3
         IN  IF cmd_len + arg_len > ARG_MAX
             THEN IF chunk = <<>>
                  THEN ChunkLoopDropsOversized(fs, file_idx + 1, cmd_len, chunk)
                  ELSE [chunk |-> chunk, file_idx |-> file_idx]
             ELSE ChunkLoopDropsOversized(fs, file_idx + 1, cmd_len + arg_len,
                                          Append(chunk, f))
    ELSE [chunk |-> chunk, file_idx |-> file_idx]

\* A chunk loop that appends the file that does not fit to a chunk that
\* already holds fs.
RECURSIVE ChunkLoopOverfills(_, _, _, _)
ChunkLoopOverfills(fs, file_idx, cmd_len, chunk) ==
    IF file_idx < Len(fs)
    THEN LET f == fs[file_idx + 1]
             arg_len == f.len + 3
         IN  IF cmd_len + arg_len > ARG_MAX
             THEN [chunk |-> Append(chunk, f), file_idx |-> file_idx + 1]
             ELSE ChunkLoopOverfills(fs, file_idx + 1, cmd_len + arg_len,
                                     Append(chunk, f))
    ELSE [chunk |-> chunk, file_idx |-> file_idx]

\* The while loop of _next_proc: greedily add fs while they fit.
RECURSIVE ChunkLoop(_, _, _, _)
ChunkLoop(fs, file_idx, cmd_len, chunk) ==
    IF file_idx < Len(fs)
    THEN LET f == fs[file_idx + 1]
             arg_len == f.len + 3
         IN  IF cmd_len + arg_len > ARG_MAX
             THEN IF chunk = <<>>
                  THEN [chunk |-> <<f>>, file_idx |-> file_idx + 1]
                  ELSE [chunk |-> chunk, file_idx |-> file_idx]
             ELSE ChunkLoop(fs, file_idx + 1, cmd_len + arg_len, Append(chunk, f))
    ELSE [chunk |-> chunk, file_idx |-> file_idx]

\* The first half of _next_proc: the rest of the current child's stderr is
\* read to the end and appended to all_stderr, and the child is waited for.
DrainProc(self, ch) ==
    IF self.proc # NoProc
    THEN LET c == ch[self.proc]
         IN  [self |-> [self EXCEPT !.all_stderr =
                            @ \o SubSeq(c.stderr, c.errpos + 1, Len(c.stderr))],
              ch |-> [ch EXCEPT ![self.proc].errpos = Len(c.stderr),
                                ![self.proc].exited = TRUE,
                                ![self.proc].waited = TRUE]]
    ELSE [self |-> self, ch |-> ch]

\* A _next_proc that spawns the next child without reading the rest of the
\* current child's stderr and without waiting for it.
NextProcLeavesChild(self, ch) ==
    IF self.file_idx >= Len(self.files)
    THEN [self |-> [self EXCEPT !.proc = NoProc, !.returncode = 0], ch |-> ch]
    ELSE LET l == ChunkLoop(self.files, self.file_idx, CmdLen(self.cmd), <<>>)
         IN  [self |-> [self EXCEPT !.file_idx = l.file_idx, !.proc = Len(ch) + 1],
              ch |-> Append(ch, Popen(l.chunk))]

\* MultiProc._next_proc
NextProc(self, ch) ==
    LET d == DrainProc(self, ch)
    IN  IF d.self.file_idx >= Len(d.self.files)
        THEN [self |-> [d.self EXCEPT !.proc = NoProc, !.returncode = 0], ch |-> d.ch]
        ELSE LET l == ChunkLoop(d.self.files, d.self.file_idx, CmdLen(d.self.cmd), <<>>)
             IN  [self |-> [d.self EXCEPT !.file_idx = l.file_idx,
                                          !.proc = Len(d.ch) + 1],
                  ch |-> Append(d.ch, Popen(l.chunk))]

\* MultiProc.__init__
MultiProcInit(cmd, fs) ==
    NextProc([cmd |-> cmd, files |-> fs, file_idx |-> 0, proc |-> NoProc,
              returncode |-> None, all_stderr |-> <<>>], <<>>)

\* A readline that, at the end of a child's output, starts the next child and
\* throws away that child's first line.
RECURSIVE ReadlineSkipsFirstLine(_, _)
ReadlineSkipsFirstLine(self, ch) ==
    IF self.proc = NoProc
    THEN [self |-> self, ch |-> ch, line |-> EOF]
    ELSE LET c == ch[self.proc]
         IN  IF c.pos < Len(c.stdout)
             THEN [self |-> self, ch |-> [ch EXCEPT ![self.proc].pos = @ + 1],
                   line |-> c.stdout[c.pos + 1]]
             ELSE LET n == NextProc(self, ch)
                      p == n.self.proc
                      skipped == IF p # NoProc /\ Len(n.ch[p].stdout) > 0
                                 THEN [n.ch EXCEPT ![p].pos = 1] ELSE n.ch
                  IN  ReadlineSkipsFirstLine(n.self, skipped)

\* MultiProc.readline
RECURSIVE Readline(_, _)
Readline(self, ch) ==
    IF self.proc = NoProc
    THEN [self |-> self, ch |-> ch, line |-> EOF]
    ELSE LET c == ch[self.proc]
         IN  IF c.pos < Len(c.stdout)
             THEN [self |-> self, ch |-> [ch EXCEPT ![self.proc].pos = @ + 1],
                   line |-> c.stdout[c.pos + 1]]
             ELSE LET n == NextProc(self, ch) IN Readline(n.self, n.ch)

\* MultiProc.poll
Poll(self, ch) ==
    IF self.proc # NoProc /\ ~ch[self.proc].exited
    THEN None
    ELSE IF self.file_idx >= Len(self.files) /\ self.proc = NoProc
         THEN self.returncode
         ELSE None

\* A terminate that does not reach the active child.
TerminateSkipsChild(self, ch) == ch

\* MultiProc.terminate
Terminate(self, ch) ==
    IF self.proc # NoProc THEN [ch EXCEPT ![self.proc].terminated = TRUE] ELSE ch

\* ---------------------------------------------------------------- text
\* A text is a sequence of characters, each written as a string: "é",
\* "U+0130" (capital I with dot above) and "U+0307" (combining dot above) take
\* two bytes in UTF-8,
\* every other character of the model one.
ByteLen(c) == IF c \in {"é", "U+0130", "U+0307"} THEN 2 ELSE 1

\* len(text.encode('utf-8'))
RECURSIVE Utf8Len(_)
Utf8Len(text) == IF text = <<>> THEN 0 ELSE ByteLen(Head(text)) + Utf8Len(Tail(text))

\* len(text.encode('utf-8')[:n].decode('utf-8')): the number of characters
\* in the first n bytes, or -1 (UnicodeDecodeError) when byte n falls inside
\* a multi-byte sequence.
RECURSIVE DecodePrefix(_, _)
DecodePrefix(text, n) ==
    IF n <= 0 \/ text = <<>> THEN 0
    ELSE IF ByteLen(Head(text)) > n THEN -1
    ELSE LET r == DecodePrefix(Tail(text), n - ByteLen(Head(text)))
         IN  IF r = -1 THEN -1 ELSE r + 1

\* str.lower() of one character: the lowercase of U+0130 is two characters,
\* "i" and U+0307.
LowerChar(c) ==
    IF c = "A" THEN <<"a">>
    ELSE IF c = "U+0130" THEN <<"i", "U+0307">>
    ELSE <<c>>

\* str.lower()
RECURSIVE Lower(_)
Lower(text) ==
    IF text = <<>> THEN <<>> ELSE LowerChar(Head(text)) \o Lower(Tail(text))

\* The case folding of re.IGNORECASE, character by character.
FoldChar(c) == IF c = "A" THEN "a" ELSE c

\* cpat.match(text, i) for a pattern that is a plain literal, i counted from 0
MatchesAtFold(text, pat, fold, i) ==
    /\ i + Len(pat) <= Len(text)
    /\ \A k \in 1..Len(pat) :
          IF fold THEN FoldChar(text[i + k]) = FoldChar(pat[k])
          ELSE text[i + k] = pat[k]

\* cpat.search(text, start).start(), or -1
Search(text, pat, fold, start) ==
    LET hits == {i \in start..Len(text) : MatchesAtFold(text, pat, fold, i)}
    IN  IF hits = {} THEN -1 ELSE CHOOSE i \in hits : \A j \in hits : i <= j

\* text[i:i+len(pat)] == pat, i counted from 0
MatchesAt(text, pat, i) ==
    /\ i + Len(pat) <= Len(text)
    /\ \A k \in 1..Len(pat) : text[i + k] = pat[k]

\* str.find(pat, start): the lowest index >= start at which pat occurs, or -1
Find(text, pat, start) ==
    LET hits == {i \in start..Len(text) : MatchesAt(text, pat, i)}
    IN  IF hits = {} THEN -1 ELSE CHOOSE i \in hits : \A j \in hits : i <= j

\* text.rstrip(): trailing whitespace removed
RECURSIVE RStrip(_)
RStrip(text) ==
    IF text # <<>> /\ text[Len(text)] \in {" ", "\n"}
    THEN RStrip(SubSeq(text, 1, Len(text) - 1))
    ELSE text

\* text.split('\n')[0]
RECURSIVE FirstLine(_)
FirstLine(text) ==
    IF text = <<>> \/ Head(text) = "\n" THEN <<>>
    ELSE <<Head(text)>> \o FirstLine(Tail(text))

\* ------------------------------------------------------ result accumulator
\* The index of the group of file_name in result, 0 when it has none.
GroupOf(res, file_name) ==
    IF \E i \in 1..Len(res) : res[i].fname = file_name
    THEN CHOOSE i \in 1..Len(res) : res[i].fname = file_name
    ELSE 0

\* An accumulator that puts the group of a file seen for the first time
\* before the groups it already has.
AddItemNewGroupFirst(res, file_name, item) ==
    LET g == GroupOf(res, file_name)
    IN  IF g = 0
        THEN <<[fname |-> file_name, items |-> <<item>>]>> \o res
        ELSE [res EXCEPT ![g].items = Append(@, item)]

\* if not file_name in result: result[file_name] = {'fname': ..., 'items': []}
\* result[file_name]['items'].append(item)
AddItem(res, file_name, item) ==
    LET g == GroupOf(res, file_name)
    IN  IF g = 0
        THEN Append(res, [fname |-> file_name, items |-> <<item>>])
        ELSE [res EXCEPT ![g].items = Append(@, item)]

\* 'one_file_result' in locals() or 'one_file_result' in globals(): the guard
\* of the duplicate check.  Nothing assigns one_file_result, in search() or in
\* the module, so the guard is false.
OneFileResultDefined == FALSE

\* The duplicate check: the guard holds and item_idx is in one_file_result
\* (the keys seen so far).
IsDuplicate(res, file_name, lnum, cnum) ==
    /\ OneFileResultDefined
    /\ \E g \in 1..Len(res) : \E i \in 1..Len(res[g].items) :
          /\ res[g].fname = file_name
          /\ res[g].items[i].lnum = lnum
          /\ res[g].items[i].cnum = cnum

\* A range test that does not look at the upper bound.
OutOfRangeNoUpperBound(range_, lnum) == range_[1] # -1 /\ range_[1] > lnum

\* (range_[0] != -1 and range_[0] > lnum) or (range_[1] != -1 and range_[1] < lnum)
OutOfRange(range_, lnum) ==
    \/ range_[1] # -1 /\ range_[1] > lnum
    \/ range_[2] # -1 /\ range_[2] < lnum

\* The items of all groups, in group order.
RECURSIVE AllItems(_)
AllItems(res) ==
    IF res = <<>> THEN <<>>
    ELSE [i \in 1..Len(Head(res).items) |->
             [fname |-> Head(res).fname, lnum |-> Head(res).items[i].lnum,
              cnum |-> Head(res).items[i].cnum]] \o AllItems(Tail(res))

\* ------------------------------------------------- structured-record mode
\* The for loop over data['submatches'] of one 'match' record; the limit is
\* not looked at inside the loop.
RECURSIVE RgSubmatches(_, _, _, _, _, _)
RgSubmatches(subs, file_name, lnum, text, range_, acc) ==
    IF subs = <<>> THEN acc
    ELSE LET cnum == Head(subs) + 1
         IN  IF IsDuplicate(acc.result, file_name, lnum, cnum)
                    \/ OutOfRange(range_, lnum)
             THEN RgSubmatches(Tail(subs), file_name, lnum, text, range_, acc)
             ELSE RgSubmatches(Tail(subs), file_name, lnum, text, range_,
                      [result |-> AddItem(acc.result, file_name,
                                     [lnum |-> lnum, cnum |-> cnum, text |-> text]),
                       limit |-> acc.limit - 1])

\* ---------------------------------------------------- submatch expander
\* The while True loop of the literal expansion.
RECURSIVE ExpandLiteral(_, _, _, _, _, _)
ExpandLiteral(text, pattern, fold, move_cnum, item, acc) ==
    LET next_char_num == IF fold THEN Find(Lower(text), Lower(pattern), move_cnum)
                         ELSE Find(text, pattern, move_cnum)
    IN  IF next_char_num = -1 THEN acc
        ELSE LET cnum == Utf8Len(SubSeq(text, 1, next_char_num)) + 1
                 a == [result |-> AddItem(acc.result, item.fname,
                                    [lnum |-> item.lnum, cnum |-> cnum, text |-> text]),
                       limit |-> acc.limit - 1]
             IN  IF a.limit <= 0 THEN a
                 ELSE ExpandLiteral(text, pattern, fold, next_char_num + 1, item, a)

\* for cp in cpat.finditer(text, move_cnum): the matches of a pattern that is a
\* plain literal, left to right, each search resuming at the end of the
\* previous match.
RECURSIVE ExpandRegex(_, _, _, _, _, _)
ExpandRegex(text, pattern, fold, pos, item, acc) ==
    LET start == Search(text, pattern, fold, pos)
    IN  IF start = -1 THEN acc
        ELSE LET cnum == Utf8Len(SubSeq(text, 1, start)) + 1
                 a == [result |-> AddItem(acc.result, item.fname,
                                    [lnum |-> item.lnum, cnum |-> cnum, text |-> text]),
                       limit |-> acc.limit - 1]
             IN  IF a.limit <= 0 THEN a
                 ELSE ExpandRegex(text, pattern, fold, start + Len(pattern), item, a)

\* -------------------------------------------- MultiProc and its consumer
FileRecs == [len : FileLens, out : {0, MaxOut}, err : {0, MaxErr}]

\* The file lists of up to MaxFiles files; a file's id is its position.
FileLists ==
    UNION {{[i \in 1..n |-> [id |-> i, len |-> g[i].len, out |-> g[i].out,
                             err |-> g[i].err]] : g \in [1..n -> FileRecs]}
           : n \in 0..MaxFiles}

NoRet == [kind |-> "none"]
\* No argument-list transfer is going on.
NoPipes == [pc |-> "none"]
\* The pattern normalizer is not running.
NoNorm == [pc |-> "none"]

InitMP ==
    /\ \E cmd \in Cmds, fs \in FileLists :
           LET m == MultiProcInit(cmd, fs)
           IN  mp = m.self /\ children = m.ch /\ files = fs
    /\ readLog = <<>>
    /\ lastRead = <<"none">>
    /\ lastPoll = None
    /\ pc = "idle"
    /\ ctx = [source |-> "none"]
    /\ proc = "MultiProc"
    /\ limit = 0
    /\ result = <<>>
    /\ fileText = <<>>
    /\ termFailed = FALSE
    /\ ret = NoRet
    /\ pipes = NoPipes
    /\ norm = NoNorm

MP_readline ==
    LET r == Readline(mp, children)
    IN  /\ mp' = r.self
        /\ children' = r.ch
        /\ lastRead' = r.line
        /\ readLog' = IF r.line # EOF THEN Append(readLog, r.line) ELSE readLog
        /\ UNCHANGED lastPoll
        /\ UNCHANGED searchVars

MP_poll ==
    /\ lastPoll' = Poll(mp, children)
    /\ UNCHANGED <<mp, children, readLog, lastRead>>
    /\ UNCHANGED searchVars

\* The active child exits by itself (it exits only after it has written all
\* its output, which the pipes hold until it is read).
ChildExit ==
    /\ \E i \in 1..Len(children) :
          /\ ~children[i].exited
          /\ children' = [children EXCEPT ![i].exited = TRUE]
    /\ UNCHANGED <<mp, readLog, lastRead, lastPoll>>
    /\ UNCHANGED searchVars

NextMP == MP_readline \/ MP_poll \/ ChildExit

SpecMP == InitMP /\ [][NextMP]_vars

\* ------------------------------------------------------------- search()
\* The inputs of an invocation.  Every matching line of the searched files
\* has the text fileText; Wide is a line wider than max_columns.
Wide == [i \in 1..MaxColumns + 2 |-> "b"]

\* (file, line number) of the lines the backend may report: below, inside
\* and above the range <<2, 2>>
Places == {<<"f", 1>>, <<"f", 2>>, <<"g", 3>>}

\* (pattern, text of the lines): one occurrence after the first; overlapping
\* occurrences; a multi-byte character before the occurrences; an occurrence
\* that differs in case.
PatternTexts ==
    {<<<<"a">>, <<"a", "b", "a">>>>,
     <<<<"a", "a">>, <<"a", "a", "a", "a">>>>,
     <<<<"a">>, <<"é", "a", "a">>>>,
     <<<<"a">>, <<"A", "b", "a">>>>}

\* A pattern re.compile rejects.
BadPattern == <<"(">>

\* The base command handed to the process, as the sequence of len(arg).
SearchCmd == <<2, 5>>

Ctxs ==
    {c \in [source : {"rg", "ag"}, pattern : {pt[1] : pt \in PatternTexts} \cup {BadPattern},
            regex : {"0", "1"}, case_sensitive : {"0", "1"},
            limit : 1..MaxLimit, range : {<<-1, -1>>, <<2, 2>>},
            glob_mode : {"far"}, is_win32 : BOOLEAN,
            submatch : {"none", "first"}, max_columns : {MaxColumns}] :
        \* the settings a mode does not read are fixed
        /\ c.source = "rg" =>
              c.submatch = "none" /\ c.regex = "0" /\ c.pattern = <<"a">>
                  /\ c.case_sensitive = "1"
        /\ c.submatch = "none" =>
              c.regex = "0" /\ c.pattern = <<"a">> /\ c.case_sensitive = "1"
        /\ c.pattern = BadPattern => c.regex = "1" /\ c.case_sensitive = "1"}

\* The file lists of a search with n files, each long enough to need a
\* child of its own under MultiProc.
SearchFileLists(n) ==
    {[i \in 1..n |-> [id |-> i, len |-> 29995, out |-> g[i].out, err |-> g[i].err]]
        : g \in [1..n -> [out : {0, MaxOut}, err : {0, MaxErr}]]}

Init ==
    /\ ctx \in Ctxs
    /\ files \in SearchFileLists(IF ctx.is_win32 THEN 2 ELSE 1)
    /\ \E pt \in PatternTexts :
          /\ ctx.pattern \in {pt[1], BadPattern}
          /\ (ctx.source = "rg" \/ ctx.submatch = "none" \/ ctx.pattern = BadPattern)
                 => pt[2] = <<"a", "b", "a">>
          /\ (ctx.case_sensitive = "0") = (pt[2] = <<"A", "b", "a">>)
          /\ fileText = pt[2]
    /\ pc = "start"
    /\ proc = "none"
    /\ limit = ctx.limit
    /\ result = <<>>
    /\ termFailed = FALSE
    /\ ret = NoRet
    /\ pipes = NoPipes
    /\ norm = NoNorm
    /\ mp = [cmd |-> <<>>, files |-> <<>>, file_idx |-> 0, proc |-> NoProc,
             returncode |-> None, all_stderr |-> <<>>]
    /\ children = <<>>
    /\ readLog = <<>>
    /\ lastRead = <<"none">>
    /\ lastPoll = None

\* Lines 275-294 and 386-394: the process is spawned (a MultiProc on a
\* length-restricted platform with a resolved file list, one child otherwise),
\* then the submatch pattern is compiled in regex mode.
Search_Spawn ==
    /\ pc = "start"
    /\ \E spawned \in BOOLEAN :
          IF ~spawned
          THEN /\ pc' = "returned"
               /\ ret' = [kind |-> "error", error |-> <<"spawn">>]
               /\ UNCHANGED <<mp, children, proc>>
          ELSE /\ IF ctx.glob_mode # "native" /\ ctx.is_win32
                  THEN LET m == MultiProcInit(SearchCmd, files)
                       IN  mp' = m.self /\ children' = m.ch /\ proc' = "MultiProc"
                  ELSE /\ children' = <<Popen(files)>>
                       /\ proc' = "Popen"
                       /\ UNCHANGED mp
               /\ IF /\ ctx.source # "rg"
                     /\ ctx.submatch = "first"
                     /\ ctx.regex # "0"
                     /\ ctx.pattern = BadPattern
                  THEN /\ pc' = "returned"
                       /\ ret' = [kind |-> "error", error |-> <<"invalid pattern">>]
                  ELSE /\ pc' = "drain"
                       /\ UNCHANGED ret
    /\ UNCHANGED <<pipes, norm, ctx, files, limit, result, fileText, termFailed,
                   readLog, lastRead, lastPoll>>

\* proc.stdout.readline()
ProcReadline(self, ch) ==
    IF proc = "MultiProc"
    THEN Readline(self, ch)
    ELSE IF ch[1].pos < Len(ch[1].stdout)
         THEN [self |-> self, ch |-> [ch EXCEPT ![1].pos = @ + 1],
               line |-> ch[1].stdout[ch[1].pos + 1]]
         ELSE [self |-> self, ch |-> ch, line |-> EOF]

\* proc.stderr.readline(): of a MultiProc, the first line of a fresh view of
\* all_stderr; of a child, the next line of its error stream.
StderrReadline(self, ch) ==
    IF proc = "MultiProc"
    THEN [ch |-> ch, line |-> IF self.all_stderr = <<>> THEN EOF
                              ELSE Head(self.all_stderr)]
    ELSE IF ch[1].errpos < Len(ch[1].stderr)
         THEN [ch |-> [ch EXCEPT ![1].errpos = @ + 1],
               line |-> ch[1].stderr[ch[1].errpos + 1]]
         ELSE [ch |-> ch, line |-> EOF]

\* proc.poll()
ProcPoll(self, ch) ==
    IF proc = "MultiProc" THEN Poll(self, ch)
    ELSE IF ch[1].exited THEN 0 ELSE None

\* proc.terminate()
ProcTerminate(self, ch) ==
    IF proc = "MultiProc" THEN Terminate(self, ch)
    ELSE [ch EXCEPT ![1].terminated = TRUE]

\* What one pass of the drain loop leaves behind.
Outcome(pc_, limit_, result_, ret_, ch_) ==
    [pc |-> pc_, limit |-> limit_, result |-> result_, ret |-> ret_, ch |-> ch_]

Continue(ch) == Outcome("drain", limit, result, ret, ch)

Raise(exc, at, res, lim, ch) ==
    Outcome("raised", lim, res, [kind |-> "raised", exc |-> exc, at |-> at], ch)

\* Lines 307-318 and 406-417: the line is empty after decode and rstrip.
EmptyLine(c, self, ch, errDecodes) ==
    LET e == IF result = <<>> THEN StderrReadline(self, ch)
             ELSE [ch |-> ch, line |-> EOF]
    IN  IF e.line # EOF
        THEN IF errDecodes
             THEN Outcome("returned", limit, result,
                          [kind |-> "error", error |-> <<"stderr", e.line>>], e.ch)
             ELSE Raise("UnicodeDecodeError", "stderr", result, limit, e.ch)
        ELSE IF ProcPoll(self, e.ch) # None
             THEN Outcome("finish", limit, result, ret, e.ch)
             ELSE Continue(e.ch)

\* Lines 320-383: one decoded, non-empty line in structured-record mode.
RgLine(c, ch) ==
    IF c.kind = "badjson" THEN Raise("TypeError", c.kind, result, limit, ch)
    ELSE IF c.kind \in {"nondict", "other"} THEN Continue(ch)
    ELSE IF c.kind = "nodata" THEN Raise("KeyError", c.kind, result, limit, ch)
    ELSE IF Len(c.text) > ctx.max_columns THEN Continue(ch)
    ELSE LET text == RStrip(FirstLine(c.text))
             a == RgSubmatches(c.subs, c.file, c.lnum, text, ctx.range,
                               [result |-> result, limit |-> limit])
         IN  Outcome(IF a.limit > 0 THEN "drain" ELSE "finish",
                     a.limit, a.result, ret, ch)

\* Lines 419-495: one decoded, non-empty line in colon-delimited mode.
ColonLine(c, ch) ==
    IF c.kind = "broken" THEN Continue(ch)
    ELSE IF c.kind = "nonnumeric" THEN Raise("ValueError", c.kind, result, limit, ch)
    ELSE IF OutOfRange(ctx.range, c.lnum) THEN Continue(ch)
    ELSE IF Len(c.text) > ctx.max_columns THEN Continue(ch)
    ELSE IF IsDuplicate(result, c.file, c.lnum, c.cnum) THEN Continue(ch)
    ELSE LET item == [fname |-> c.file, lnum |-> c.lnum]
             first == [result |-> AddItem(result, c.file,
                                     [lnum |-> c.lnum, cnum |-> c.cnum,
                                      text |-> c.text]),
                       limit |-> limit - 1]
             char_num == DecodePrefix(c.text, c.cnum - 1)
             fold == ctx.case_sensitive = "0"
             a == IF ctx.submatch # "first" THEN first
                  ELSE IF ctx.regex = "0"
                  THEN ExpandLiteral(c.text, ctx.pattern, fold, char_num + 1, item, first)
                  ELSE ExpandRegex(c.text, ctx.pattern, fold, char_num + 1, item, first)
         IN  IF ctx.submatch = "first" /\ char_num = -1
             THEN Raise("UnicodeDecodeError", c.kind, first.result, first.limit, ch)
             ELSE Outcome(IF a.limit > 0 THEN "drain" ELSE "finish",
                          a.limit, a.result, ret, ch)

\* The character indexes (from 0) at which the pattern occurs in the text of
\* the lines, as the backend matches it.
Occurrences ==
    {i \in 0..Len(fileText) :
        MatchesAtFold(fileText, ctx.pattern, ctx.case_sensitive = "0", i)}

\* The columns a colon-delimited backend may report for a match: of an
\* occurrence, counted from 1 in bytes or, by a backend that counts so, in
\* characters.
ReportedColumns ==
    {Utf8Len(SubSeq(fileText, 1, i)) + 1 : i \in Occurrences}
        \cup {i + 1 : i \in Occurrences}

\* The lines a backend may write, by what the parser makes of them.
RgContents ==
    {[kind |-> k] : k \in {"undecodable", "blank", "badjson", "nondict", "other",
                           "nodata"}}
    \cup {[kind |-> "match", file |-> p[1], lnum |-> p[2],
           text |-> fileText \o <<"\n">>, subs |-> sb]
             : p \in Places, sb \in {<<0>>, <<0, 2>>}}
    \cup {[kind |-> "match", file |-> "f", lnum |-> 2, text |-> Wide, subs |-> <<0>>]}

ColonContents ==
    {[kind |-> k] : k \in {"undecodable", "blank", "broken", "nonnumeric"}}
    \cup {[kind |-> "match", file |-> p[1], lnum |-> p[2], cnum |-> cn,
           text |-> fileText]
             : p \in Places, cn \in ReportedColumns}
    \cup {[kind |-> "match", file |-> "f", lnum |-> 2, cnum |-> 1, text |-> Wide]}

EofLine == [kind |-> "eof"]

\* One pass of the while limit > 0 loop (lines 297-383 and 396-495).
Search_Drain ==
    /\ pc = "drain"
    /\ LET r == ProcReadline(mp, children)
       IN  \E c \in IF r.line = EOF THEN {EofLine}
                    ELSE IF ctx.source = "rg" THEN RgContents ELSE ColonContents :
           \E errDecodes \in IF c.kind \in {"eof", "blank"} THEN BOOLEAN ELSE {TRUE} :
              LET o == IF c.kind = "undecodable" THEN Continue(r.ch)
                       ELSE IF c.kind \in {"eof", "blank"}
                       THEN EmptyLine(c, r.self, r.ch, errDecodes)
                       ELSE IF ctx.source = "rg" THEN RgLine(c, r.ch)
                       ELSE ColonLine(c, r.ch)
              IN  /\ mp' = r.self
                  /\ children' = o.ch
                  /\ lastRead' = r.line
                  /\ pc' = o.pc
                  /\ limit' = o.limit
                  /\ result' = o.result
                  /\ ret' = o.ret
    /\ UNCHANGED <<pipes, norm, ctx, files, proc, fileText, termFailed, readLog, lastPoll>>

\* for file_ctx in result.values(): json.dump(file_ctx, fp); fp.write('\n')
Emit(res) == [i \in 1..Len(res) |-> res[i]]

\* Lines 497-510: terminate (a failure is logged), write the groups, return.
Search_Finish ==
    /\ pc = "finish"
    /\ \E fails \in BOOLEAN : termFailed' = fails
    /\ children' = ProcTerminate(mp, children)
    /\ ret' = [kind |-> "items", items_file |-> Emit(result), warning |-> ""]
    /\ pc' = "returned"
    /\ UNCHANGED <<pipes, norm, mp, ctx, files, proc, limit, result, fileText,
                   readLog, lastRead, lastPoll>>

\* The child exits by itself while search() drains it (the children of a
\* MultiProc are waited for by _next_proc, and its poll() does not depend on
\* whether the active one has exited).
Search_ChildExit ==
    /\ pc = "drain"
    /\ proc = "Popen"
    /\ ChildExit

Next == Search_Spawn \/ Search_Drain \/ Search_Finish \/ Search_ChildExit

Spec == Init /\ [][Next]_vars

\* ---------------------------------------------- lines of one child, expanded
\* The drain loop of lines 396-495 on the output of one child of a
\* colon-delimited backend with submatch 'first', with limits that leave room
\* for several expanded records and with a line in which U+0130 comes before
\* the match.
LinePatternTexts ==
    PatternTexts \cup {<<<<"a">>, <<"U+0130", "b", "a">>>>}

InitLine ==
    /\ \E pt \in LinePatternTexts, regex \in {"0", "1"}, case_sensitive \in {"0", "1"},
          lim \in 1..MaxExpandLimit, out \in {1, MaxOut} :
          /\ ctx = [source |-> "ag", pattern |-> pt[1], regex |-> regex,
                    case_sensitive |-> case_sensitive, limit |-> lim,
                    range |-> <<-1, -1>>, glob_mode |-> "far", is_win32 |-> FALSE,
                    submatch |-> "first", max_columns |-> MaxColumns]
          /\ fileText = pt[2]
          /\ limit = lim
          /\ files = <<[id |-> 1, len |-> 1, out |-> out, err |-> 0]>>
          /\ children = <<Popen(files)>>
    /\ pc = "drain"
    /\ proc = "Popen"
    /\ result = <<>>
    /\ termFailed = FALSE
    /\ ret = NoRet
    /\ pipes = NoPipes
    /\ norm = NoNorm
    /\ mp = [cmd |-> <<>>, files |-> <<>>, file_idx |-> 0, proc |-> NoProc,
             returncode |-> None, all_stderr |-> <<>>]
    /\ readLog = <<>>
    /\ lastRead = <<"none">>
    /\ lastPoll = None

NextLine == Search_Drain \/ Search_Finish \/ Search_ChildExit

SpecLine == InitLine /\ [][NextLine]_vars

\* ------------------------------------------------ argument-list transfer
\* Lines 279-298 with use_xargs: search() writes the null-separated file list
\* to the stdin pipe of xargs and closes it, and only then starts reading the
\* stdout pipe.  A pipe holds PipeCap units; a write to a full pipe blocks.
\* One unit of input is what xargs hands to one run of the search command,
\* which prints up to MaxRunOutput units and which xargs waits for before it
\* reads on.
\*   pipes.pc       where search() is: "write", "drain"
\*   pipes.data     the units of (sep.join(files) + sep) still to be written
\*   pipes.stdin    the units in the stdin pipe
\*   pipes.stdout   the units in the stdout pipe
\*   pipes.closed   search() has closed the stdin pipe
\*   pipes.pending  the units the running search command has still to print
\*   pipes.read     the units search() has read from the stdout pipe (capped)
InitPipe ==
    /\ \E n \in 1..MaxData :
          pipes = [pc |-> "write", data |-> n, stdin |-> 0, stdout |-> 0,
                   closed |-> FALSE, pending |-> 0, read |-> 0]
    /\ mp = [cmd |-> <<>>, files |-> <<>>, file_idx |-> 0, proc |-> NoProc,
             returncode |-> None, all_stderr |-> <<>>]
    /\ children = <<>>
    /\ readLog = <<>>
    /\ lastRead = <<"none">>
    /\ lastPoll = None
    /\ pc = "start"
    /\ ctx = [source |-> "none"]
    /\ files = <<>>
    /\ proc = "Popen"
    /\ limit = 0
    /\ result = <<>>
    /\ fileText = <<>>
    /\ termFailed = FALSE
    /\ ret = NoRet
    /\ norm = NoNorm

\* proc.stdin.write(...): the blocking write moves the data into the pipe as
\* room becomes free, and returns when all of it is in the pipe.
Pipe_Write ==
    /\ pipes.pc = "write"
    /\ pipes.data > 0
    /\ pipes.stdin < PipeCap
    /\ pipes' = [pipes EXCEPT !.data = @ - 1, !.stdin = @ + 1]
    /\ UNCHANGED <<mpVars, drainVars, norm>>

\* proc.stdin.close(), reached when the write has returned.
Pipe_Close ==
    /\ pipes.pc = "write"
    /\ pipes.data = 0
    /\ pipes' = [pipes EXCEPT !.closed = TRUE, !.pc = "drain"]
    /\ UNCHANGED <<mpVars, drainVars, norm>>

\* proc.stdout.readline() of the drain loop takes output out of the pipe.
Pipe_Readline ==
    /\ pipes.pc = "drain"
    /\ pipes.stdout > 0
    /\ pipes' = [pipes EXCEPT !.stdout = @ - 1,
                              !.read = IF @ < MaxData THEN @ + 1 ELSE @]
    /\ UNCHANGED <<mpVars, drainVars, norm>>

\* xargs takes the next unit of input and runs the search command on it; the
\* command has some output to print.
Xargs_Read ==
    /\ pipes.pc \in {"write", "drain"}
    /\ pipes.pending = 0
    /\ pipes.stdin > 0
    /\ \E out \in 0..MaxRunOutput :
          pipes' = [pipes EXCEPT !.stdin = @ - 1, !.pending = out]
    /\ UNCHANGED <<mpVars, drainVars, norm>>

\* The running search command prints a unit; it blocks while the stdout pipe
\* is full.
Xargs_Write ==
    /\ pipes.pc \in {"write", "drain"}
    /\ pipes.pending > 0
    /\ pipes.stdout < PipeCap
    /\ pipes' = [pipes EXCEPT !.pending = @ - 1, !.stdout = @ + 1]
    /\ UNCHANGED <<mpVars, drainVars, norm>>

NextPipe == Pipe_Write \/ Pipe_Close \/ Pipe_Readline \/ Xargs_Read \/ Xargs_Write

SpecPipe == InitPipe /\ [][NextPipe]_vars

\* ----------------------------------------------------------- output pipes
\* Lines 279-318 and 396-417: the child is spawned with stdout=PIPE and
\* stderr=PIPE and the drain loop reads its stdout line by line; it reads a
\* line of stderr only on an empty line with no result yet.  A pipe holds
\* PipeCap units (a unit of stdout is a line); a write to a full pipe blocks
\* the child, a read of an empty pipe blocks search() until the child writes
\* or closes the pipe, which it does when it exits.
\*   pipes.pc       where search() is: "readline", "stderr_readline", "returned"
\*   pipes.script   the writes the child has still to do, "out" or "err" each
\*   pipes.stdout   the lines in the stdout pipe
\*   pipes.stderr   the units in the stderr pipe
\*   pipes.exited   the child has exited and its ends of the pipes are closed
\*   pipes.matched  len(result) > 0
InitStreams ==
    /\ \E script \in UNION {[1..n -> {"out", "err"}] : n \in 0..MaxScript} :
          pipes = [pc |-> "readline", script |-> script, stdout |-> 0, stderr |-> 0,
                   exited |-> FALSE, matched |-> FALSE]
    /\ mp = [cmd |-> <<>>, files |-> <<>>, file_idx |-> 0, proc |-> NoProc,
             returncode |-> None, all_stderr |-> <<>>]
    /\ children = <<>>
    /\ readLog = <<>>
    /\ lastRead = <<"none">>
    /\ lastPoll = None
    /\ pc = "drain"
    /\ ctx = [source |-> "none"]
    /\ files = <<>>
    /\ proc = "Popen"
    /\ limit = 0
    /\ result = <<>>
    /\ fileText = <<>>
    /\ termFailed = FALSE
    /\ ret = NoRet
    /\ norm = NoNorm

\* The child does its next write, when the pipe has room for it.
Streams_ChildWrite ==
    /\ pipes.pc \in {"readline", "stderr_readline"}
    /\ pipes.script # <<>>
    /\ IF Head(pipes.script) = "out"
       THEN /\ pipes.stdout < PipeCap
            /\ pipes' = [pipes EXCEPT !.script = Tail(@), !.stdout = @ + 1]
       ELSE /\ pipes.stderr < PipeCap
            /\ pipes' = [pipes EXCEPT !.script = Tail(@), !.stderr = @ + 1]
    /\ UNCHANGED <<mpVars, drainVars, norm>>

\* The child has written everything and exits.
Streams_ChildExit ==
    /\ pipes.pc \in {"readline", "stderr_readline"}
    /\ pipes.script = <<>>
    /\ ~pipes.exited
    /\ pipes' = [pipes EXCEPT !.exited = TRUE]
    /\ UNCHANGED <<mpVars, drainVars, norm>>

\* line = proc.stdout.readline() and what the loop does with it up to its
\* next read: a line that gives a record, a line that is skipped, or a line
\* that is empty after rstrip (a blank line, or b'' at the end of the file).
Streams_Readline ==
    /\ pipes.pc = "readline"
    /\ \/ /\ pipes.stdout > 0
          /\ \E kind \in {"match", "skipped", "blank"} :
                pipes' = [pipes EXCEPT
                             !.stdout = @ - 1,
                             !.matched = @ \/ kind = "match",
                             !.pc = IF kind = "blank"
                                    THEN IF pipes.matched
                                         THEN IF pipes.exited THEN "returned"
                                              ELSE "readline"
                                         ELSE "stderr_readline"
                                    ELSE "readline"]
       \/ /\ pipes.stdout = 0
          /\ pipes.exited
          /\ pipes' = [pipes EXCEPT !.pc = IF pipes.matched THEN "returned"
                                           ELSE "stderr_readline"]
    /\ UNCHANGED <<mpVars, drainVars, norm>>

\* err = proc.stderr.readline() with len(result) == 0: a line of error
\* output is returned as the error; at the end of the error stream the loop
\* goes on to proc.poll(), which reports the exit of the child that closed
\* the stream, and leaves the loop.
Streams_StderrReadline ==
    /\ pipes.pc = "stderr_readline"
    /\ \/ /\ pipes.stderr > 0
          /\ pipes' = [pipes EXCEPT !.stderr = @ - 1, !.pc = "returned"]
       \/ /\ pipes.stderr = 0
          /\ pipes.exited
          /\ pipes' = [pipes EXCEPT !.pc = "returned"]
    /\ UNCHANGED <<mpVars, drainVars, norm>>

NextStreams ==
    Streams_ChildWrite \/ Streams_ChildExit \/ Streams_Readline
        \/ Streams_StderrReadline

SpecStreams == InitStreams /\ [][NextStreams]_vars

\* --------------------------------------------------- pattern normalizer
\* Lines 123-186 of search(): the pattern is a sequence of characters and
\* cmdargs a sequence of flags.
Backslash == "\\"

\* source in ('rg', 'rgnvim')
IsRg(source) == source \in {"rg", "rgnvim"}

\* '\\' * k
Backslashes(k) == [j \in 1..k |-> Backslash]

\* if flag not in cmdargs: cmdargs.append(flag)
AppendIfAbsent(cmdargs, flag) ==
    IF \E j \in 1..Len(cmdargs) : cmdargs[j] = flag THEN cmdargs
    ELSE Append(cmdargs, flag)

\* if flag in cmdargs: cmdargs.remove(flag) -- list.remove takes out the
\* first occurrence only
RemoveIfPresent(cmdargs, flag) ==
    IF \E j \in 1..Len(cmdargs) : cmdargs[j] = flag
    THEN LET k == CHOOSE j \in 1..Len(cmdargs) :
                      cmdargs[j] = flag /\ \A m \in 1..j - 1 : cmdargs[m] # flag
         IN  SubSeq(cmdargs, 1, k - 1) \o SubSeq(cmdargs, k + 1, Len(cmdargs))
    ELSE cmdargs

\* while i < n and pattern[i] == '\\': i += 1   (i counted from 0)
RECURSIVE SkipBackslashes(_, _)
SkipBackslashes(pattern, i) ==
    IF i < Len(pattern) /\ pattern[i + 1] = Backslash
    THEN SkipBackslashes(pattern, i + 1)
    ELSE i

\* A parsing loop that takes the directive letter out of the pattern like
\* the source but leaves every backslash of the run in place.
RECURSIVE ParsePatternKeepsBackslashes(_, _, _, _)
ParsePatternKeepsBackslashes(pattern, i, new_pattern, cmdargs) ==
    IF i >= Len(pattern) THEN [pattern |-> new_pattern, cmdargs |-> cmdargs]
    ELSE IF pattern[i + 1] = Backslash
    THEN LET end == SkipBackslashes(pattern, i + 1)
             backslashes == end - i
         IN  IF end < Len(pattern) /\ pattern[end + 1] \in {"C", "c"}
             THEN IF backslashes % 2 = 1
                  THEN ParsePatternKeepsBackslashes(pattern, end + 1,
                           new_pattern \o Backslashes(backslashes),
                           AppendIfAbsent(cmdargs,
                               IF pattern[end + 1] = "C" THEN "--case-sensitive"
                               ELSE "--ignore-case"))
                  ELSE ParsePatternKeepsBackslashes(pattern, end + 1,
                           Append(new_pattern \o Backslashes(backslashes),
                                  pattern[end + 1]),
                           cmdargs)
             ELSE ParsePatternKeepsBackslashes(pattern, end,
                      new_pattern \o Backslashes(backslashes), cmdargs)
    ELSE ParsePatternKeepsBackslashes(pattern, i + 1,
             Append(new_pattern, pattern[i + 1]), cmdargs)

\* The while i < n loop of lines 127-163, from index i (counted from 0).
RECURSIVE ParsePattern(_, _, _, _)
ParsePattern(pattern, i, new_pattern, cmdargs) ==
    IF i >= Len(pattern) THEN [pattern |-> new_pattern, cmdargs |-> cmdargs]
    ELSE IF pattern[i + 1] = Backslash
    THEN LET end == SkipBackslashes(pattern, i + 1)
             backslashes == end - i
         IN  IF end < Len(pattern) /\ pattern[end + 1] \in {"C", "c"}
             THEN IF backslashes % 2 = 1
                  THEN ParsePattern(pattern, end + 1,
                           new_pattern \o Backslashes(backslashes - 1),
                           AppendIfAbsent(cmdargs,
                               IF pattern[end + 1] = "C" THEN "--case-sensitive"
                               ELSE "--ignore-case"))
                  ELSE ParsePattern(pattern, end + 1,
                           Append(new_pattern \o Backslashes(backslashes),
                                  pattern[end + 1]),
                           cmdargs)
             ELSE ParsePattern(pattern, end,
                      new_pattern \o Backslashes(backslashes), cmdargs)
    ELSE ParsePattern(pattern, i + 1, Append(new_pattern, pattern[i + 1]), cmdargs)

\* Lines 170-186: the case_sensitive setting of the context, compared with
\* the integers 1 and 0; any other value leaves cmdargs alone.
RespectCaseSensitive(case_sensitive, cmdargs) ==
    IF case_sensitive = 1
    THEN RemoveIfPresent(
             RemoveIfPresent(AppendIfAbsent(cmdargs, "--case-sensitive"),
                             "--ignore-case"),
             "--smart-case")
    ELSE IF case_sensitive = 0
    THEN RemoveIfPresent(
             RemoveIfPresent(AppendIfAbsent(cmdargs, "--ignore-case"),
                             "--case-sensitive"),
             "--smart-case")
    ELSE cmdargs

\* The characters a raw pattern is made of: the backslash, the two directive
\* letters and another character.
PatternChars == {Backslash, "C", "c", "x"}

CaseFlags == {"--case-sensitive", "--ignore-case", "--smart-case"}

\* The sequences over S of length up to n.
SeqsUpTo(S, n) == UNION {[1..k -> S] : k \in 0..n}

\* ctx['case_sensitive']: sensitive, insensitive, or neither of the two
CaseSettings == {1, 0, -1}

InitNorm ==
    /\ \E source \in {"rg", "rgnvim", "ag"},
          pattern \in SeqsUpTo(PatternChars, MaxPattern),
          cmdargs \in SeqsUpTo(CaseFlags, MaxFlags),
          case_sensitive \in CaseSettings :
          \* rgnvim takes the branches of rg; a backend that is neither is
          \* tried with one setting
          /\ source = "rgnvim" => case_sensitive = 1 /\ Len(cmdargs) <= 1
          /\ source = "ag" => case_sensitive = 0 /\ Len(cmdargs) <= 1
          /\ norm = [pc |-> "pattern", source |-> source, raw |-> pattern,
                     initial |-> cmdargs, case_sensitive |-> case_sensitive,
                     pattern |-> pattern, cmdargs |-> cmdargs]
    /\ mp = [cmd |-> <<>>, files |-> <<>>, file_idx |-> 0, proc |-> NoProc,
             returncode |-> None, all_stderr |-> <<>>]
    /\ children = <<>>
    /\ readLog = <<>>
    /\ lastRead = <<"none">>
    /\ lastPoll = None
    /\ pc = "start"
    /\ ctx = [source |-> "none"]
    /\ files = <<>>
    /\ proc = "none"
    /\ limit = 0
    /\ result = <<>>
    /\ fileText = <<>>
    /\ termFailed = FALSE
    /\ ret = NoRet
    /\ pipes = NoPipes

\* Lines 123-164: the pattern is parsed for the \C and \c directives.
Norm_Pattern ==
    /\ norm.pc = "pattern"
    /\ IF IsRg(norm.source)
       THEN LET r == ParsePattern(norm.pattern, 0, <<>>, norm.cmdargs)
            IN  norm' = [norm EXCEPT !.pc = "flags", !.pattern = r.pattern,
                                     !.cmdargs = r.cmdargs]
       ELSE norm' = [norm EXCEPT !.pc = "flags"]
    /\ UNCHANGED <<mpVars, drainVars, pipes>>

\* Lines 166-186: the case_sensitive setting is applied to cmdargs.
Norm_Flags ==
    /\ norm.pc = "flags"
    /\ IF IsRg(norm.source)
       THEN norm' = [norm EXCEPT !.pc = "done",
                        !.cmdargs = RespectCaseSensitive(norm.case_sensitive, @)]
       ELSE norm' = [norm EXCEPT !.pc = "done"]
    /\ UNCHANGED <<mpVars, drainVars, pipes>>

NextNorm == Norm_Pattern \/ Norm_Flags

SpecNorm == InitNorm /\ [][NextNorm]_vars

\* ------------------------------------------------- properties: MultiProc
\* The files handed to the children spawned so far, in spawn order.
RECURSIVE ConcatChunks(_)
ConcatChunks(ch) ==
    IF ch = <<>> THEN <<>> ELSE Head(ch).chunk \o ConcatChunks(Tail(ch))

\* The argument length of a child command: the base command plus its chunk.
RECURSIVE ChunkArgLen(_)
ChunkArgLen(chunk) ==
    IF chunk = <<>> THEN 0 ELSE Head(chunk).len + 3 + ChunkArgLen(Tail(chunk))

Budget(chunk) == CmdLen(mp.cmd) + ChunkArgLen(chunk)

\* C8: the chunks appended to the successive child commands are non-empty,
\* their concatenation in spawn order is the part of the file list before the
\* cursor (so the cursor moved past every file of every chunk), and once the
\* MultiProc is drained to exhaustion it is the whole file list.
C8_ChunksPartitionFiles ==
    /\ \A i \in 1..Len(children) : children[i].chunk # <<>>
    /\ mp.file_idx <= Len(mp.files)
    /\ ConcatChunks(children) = SubSeq(mp.files, 1, mp.file_idx)
    /\ (mp.proc = NoProc => ConcatChunks(children) = mp.files)

\* C8 witness: drained to exhaustion after several spawns, one chunk holding
\* several files and one a single file that is over the budget by itself.
C8_Witness ==
    /\ mp.proc = NoProc
    /\ Len(children) >= 2
    /\ \E i \in 1..Len(children) : Len(children[i].chunk) >= 2
    /\ \E i \in 1..Len(children) : Budget(children[i].chunk) > ARG_MAX

\* C9 as stated: every chunk but possibly the first respects the budget.
C9_LaterChunksRespectBudget ==
    \A i \in 2..Len(children) : Budget(children[i].chunk) <= ARG_MAX

\* C9 amended: every chunk that holds more than one file respects the budget
\* (only a chunk made of a single file can exceed it, first or not).
C9_MultiFileChunksRespectBudget ==
    \A i \in 1..Len(children) :
        Len(children[i].chunk) > 1 => Budget(children[i].chunk) <= ARG_MAX

\* C9 witness: a chunk of several files, and a later chunk that is not the
\* first and is over the budget.
C9_Witness ==
    /\ \E i \in 1..Len(children) : Len(children[i].chunk) > 1
    /\ \E i \in 2..Len(children) : Budget(children[i].chunk) > ARG_MAX

\* The lines read so far from the children, in spawn order.
RECURSIVE ConsumedOutput(_)
ConsumedOutput(ch) ==
    IF ch = <<>> THEN <<>>
    ELSE SubSeq(Head(ch).stdout, 1, Head(ch).pos) \o ConsumedOutput(Tail(ch))

\* Every line the children wrote, in spawn order.
RECURSIVE WholeOutput(_)
WholeOutput(ch) ==
    IF ch = <<>> THEN <<>> ELSE Head(ch).stdout \o WholeOutput(Tail(ch))

\* C10: the non-empty values readline() returned are the children's output
\* lines in chunk order, every child before the active one read to its end;
\* once the last chunk is drained they are all the lines of all the children,
\* readline() returns empty and changes nothing, and poll() reports 0.
C10_OneContinuousStream ==
    /\ readLog = ConsumedOutput(children)
    /\ \A i \in 1..Len(children) :
          i # mp.proc => children[i].pos = Len(children[i].stdout)
    /\ mp.proc = NoProc =>
          /\ readLog = WholeOutput(children)
          /\ lastRead \in {EOF, <<"none">>}
          /\ Readline(mp, children).line = EOF
          /\ Readline(mp, children).self = mp
          /\ Poll(mp, children) = 0

\* C10 witness: exhausted after three children, one of which wrote nothing
\* between two that wrote lines, and poll() was seen to report 0.
C10_Witness ==
    /\ mp.proc = NoProc
    /\ Len(children) >= 3
    /\ children[1].stdout # <<>>
    /\ children[2].stdout = <<>>
    /\ children[3].stdout # <<>>
    /\ lastRead = EOF
    /\ lastPoll = 0

\* The error stream of the process object: of a child its stderr, of a
\* MultiProc the error output of all its children in spawn order.
RECURSIVE WholeStderr(_)
WholeStderr(ch) ==
    IF ch = <<>> THEN <<>> ELSE Head(ch).stderr \o WholeStderr(Tail(ch))

\* C11: at most one child of the MultiProc is alive (spawned and not waited
\* for) at any time.  Every child but the most recently spawned one has been
\* read to the end of its output, has had all its error output taken into
\* all_stderr and has been waited for; the child readline() reads from is the
\* most recently spawned one, or none; all_stderr is the error output of the
\* children waited for, in spawn order.
C11_AtMostOneChildAlive ==
    /\ Cardinality({i \in 1..Len(children) : ~children[i].waited}) <= 1
    /\ mp.proc \in {NoProc, Len(children)}
    /\ \A i \in 1..Len(children) :
          i # mp.proc =>
              /\ children[i].pos = Len(children[i].stdout)
              /\ children[i].errpos = Len(children[i].stderr)
              /\ children[i].exited
              /\ children[i].waited
    /\ mp.proc # NoProc => ~children[mp.proc].waited
    /\ mp.all_stderr =
          WholeStderr(SubSeq(children, 1,
                             IF mp.proc = NoProc THEN Len(children) ELSE mp.proc - 1))

\* C11 witness: a second child is being read while the first, which wrote
\* output and error output, has been drained and waited for.
C11_Witness ==
    /\ Len(children) = 2
    /\ mp.proc = 2
    /\ children[1].stdout # <<>>
    /\ children[1].stderr # <<>>
    /\ children[1].waited
    /\ children[2].pos > 0
    /\ ~children[2].waited

\* -------------------------------------------------- properties: search()
\* search() returned an items_file.
ReturnedItems == pc = "returned" /\ ret.kind = "items"

\* search() returned the error read from the error stream.
ReturnedStderr ==
    pc = "returned" /\ ret.kind = "error" /\ ret.error[1] = "stderr"

\* The identity keys (file, line, column) of the records of an items_file.
Keys(items_file) == AllItems(items_file)

\* The child search() reads from when it stops: the single child, or the
\* active child of the MultiProc (0 when it has none).
ActiveChild == IF proc = "MultiProc" THEN mp.proc ELSE 1

\* C1: an invocation that returns an items_file returns at most ctx.limit
\* match records over all its file groups.
C1_AtMostLimitRecords ==
    ReturnedItems => Len(Keys(ret.items_file)) <= ctx.limit

\* C2: no two match records of a returned items_file have the same identity
\* key (file, line, column).
C2_UniqueKeys ==
    ReturnedItems =>
        \A i, j \in 1..Len(Keys(ret.items_file)) :
            i # j => Keys(ret.items_file)[i] # Keys(ret.items_file)[j]

\* C3: the error stream is returned as the error only when the output stream
\* has ended (the last readline() returned b'') with no match accumulated; an
\* invocation that returns with matches collected returns them as items_file.
C3_ErrorOnlyAtEndOfOutput ==
    /\ ReturnedStderr => lastRead = EOF /\ result = <<>>
    /\ (pc = "returned" /\ result # <<>>) =>
           ret.kind = "items" /\ ret.items_file = Emit(result)

\* C4: when the output stream has ended with no match accumulated and the
\* error stream is not empty, search() returns an error made of the text the
\* error stream starts with, for a single child and for a MultiProc.
C4_ErrorSurfacedAtEndOfOutput ==
    (/\ pc \in {"returned", "raised"}
     /\ lastRead = EOF
     /\ result = <<>>
     /\ WholeStderr(children) # <<>>)
        => /\ pc = "returned"
           /\ ret = [kind |-> "error",
                     error |-> <<"stderr", Head(WholeStderr(children))>>]

\* C5: a line that cannot be decoded, a structured line that is not a
\* well-formed record, a colon-delimited line without four fields or a line
\* wider than max_columns never makes the invocation fail.
C5_ParseErrorsNeverFatal ==
    pc = "raised" => ret.at \notin {"undecodable", "badjson", "nondict", "broken"}

\* C6: when search() returns after the limit was used up, terminate was
\* invoked on the child it was reading from (the single child or the active
\* child of the MultiProc), and it returns the items_file with the collected
\* matches whether or not terminate failed.
C6_TerminateOnLimit ==
    (pc = "returned" /\ limit <= 0) =>
        /\ ActiveChild # NoProc
        /\ children[ActiveChild].terminated
        /\ ret = [kind |-> "items", items_file |-> Emit(result), warning |-> ""]

\* C6 witness: the limit was used up while the active child of a MultiProc
\* still had output to be read and a further chunk to run, terminate failed,
\* and search() returned.
C6_Witness ==
    /\ pc = "returned"
    /\ limit <= 0
    /\ proc = "MultiProc"
    /\ termFailed
    /\ mp.file_idx < Len(mp.files)
    /\ children[mp.proc].pos < Len(children[mp.proc].stdout)

\* C6 witness, single child: the same with one child process.
C6_WitnessPopen ==
    /\ pc = "returned"
    /\ limit <= 0
    /\ proc = "Popen"
    /\ termFailed
    /\ children[1].pos < Len(children[1].stdout)

\* The records a step added to group g (all its records when the group is
\* new).
NewItems(old, new, g) ==
    SubSeq(new[g].items, (IF g <= Len(old) THEN Len(old[g].items) ELSE 0) + 1,
           Len(new[g].items))

\* new continues old in discovery order: the groups of old are where they
\* were, each with the records it had as the beginning of its records, and
\* the groups that are new come after them.
ContinuesInOrder(old, new) ==
    /\ Len(new) >= Len(old)
    /\ \A g \in 1..Len(old) :
          /\ new[g].fname = old[g].fname
          /\ Len(new[g].items) >= Len(old[g].items)
          /\ SubSeq(new[g].items, 1, Len(old[g].items)) = old[g].items

\* The records one line added are in one group and, primary match first,
\* from left to right.
OneLineLeftToRight(old, new) ==
    /\ Cardinality({g \in 1..Len(new) : NewItems(old, new, g) # <<>>}) <= 1
    /\ \A g \in 1..Len(new) :
          LET added == NewItems(old, new, g)
          IN  \A i, j \in 1..Len(added) :
                  i < j => /\ added[i].lnum = added[j].lnum
                           /\ added[i].cnum < added[j].cnum

\* C14: there is one group per file path, in the order in which the files
\* were first seen; every pass of the drain loop leaves the groups and their
\* records where they were and adds the records of its line after them,
\* primary match first and then from left to right; the items_file holds the
\* groups in that order, one per line.
C14_DiscoveryOrder ==
    /\ [](/\ \A g, h \in 1..Len(result) : g # h => result[g].fname # result[h].fname
          /\ \A g \in 1..Len(result) : result[g].items # <<>>
          /\ ReturnedItems =>
                /\ Len(ret.items_file) = Len(result)
                /\ \A g \in 1..Len(result) :
                       /\ ret.items_file[g].fname = result[g].fname
                       /\ ret.items_file[g].items = result[g].items)
    /\ [][ContinuesInOrder(result, result') /\ OneLineLeftToRight(result, result')]_vars

\* C14 witness: an items_file with the group of g before the group of f,
\* the latter with the primary match of a line followed by a submatch.
C14_Witness ==
    /\ ReturnedItems
    /\ Len(ret.items_file) = 2
    /\ ret.items_file[1].fname = "g"
    /\ ret.items_file[2].fname = "f"
    /\ Len(ret.items_file[2].items) = 2
    /\ ret.items_file[2].items[1].cnum < ret.items_file[2].items[2].cnum

\* C15: no record of the result has a line number outside the range of the
\* context (-1 is no bound), and the limit goes down only by the number of
\* records added, so a line that the range filters out takes nothing of it.
C15_RangeFilter ==
    /\ [](pc \in {"drain", "finish", "returned", "raised"} =>
             \A i \in 1..Len(AllItems(result)) :
                 /\ (ctx.range[1] # -1 => AllItems(result)[i].lnum >= ctx.range[1])
                 /\ (ctx.range[2] # -1 => AllItems(result)[i].lnum <= ctx.range[2]))
    /\ [][limit - limit' = Len(AllItems(result')) - Len(AllItems(result))]_vars

\* C15 witness: with the range <<2, 2>> the child's two output lines were
\* read and search() returned one record, of line 2, with limit left.
C15_Witness ==
    /\ ReturnedItems
    /\ ctx.range = <<2, 2>>
    /\ proc = "Popen"
    /\ children[1].pos = 2
    /\ Len(AllItems(result)) = 1
    /\ AllItems(result)[1].lnum = 2
    /\ limit = ctx.limit - 1
    /\ limit > 0

\* C19: when search() returns after it spawned a process, no child it
\* started is left neither waited for nor signalled by terminate.
C19_TerminateOnEveryReturn ==
    pc = "returned" =>
        \A i \in 1..Len(children) : children[i].waited \/ children[i].terminated

\* ------------------------------------------ properties: submatch expansion
\* The records a pass of the drain loop added, the primary match of its
\* line first (<<>> when it added none).
LineAdded(old, new) ==
    IF \E g \in 1..Len(new) : NewItems(old, new, g) # <<>>
    THEN NewItems(old, new, CHOOSE g \in 1..Len(new) : NewItems(old, new, g) # <<>>)
    ELSE <<>>

\* The file of the records a pass added.
LineFile(old, new) ==
    new[CHOOSE g \in 1..Len(new) : NewItems(old, new, g) # <<>>].fname

\* The byte columns (from 1) at which the pattern occurs in the line.
ByteColumns == {Utf8Len(SubSeq(fileText, 1, i)) + 1 : i \in Occurrences}

\* The result regex mode gives for the line of this primary match.
RegexResult(file_name, primary) ==
    ExpandRegex(primary.text, ctx.pattern, ctx.case_sensitive = "0",
                DecodePrefix(primary.text, primary.cnum - 1) + 1,
                [fname |-> file_name, lnum |-> primary.lnum],
                [result |-> AddItem(result, file_name, primary),
                 limit |-> limit - 1]).result

\* C17: with submatch 'first' and regex disabled, the expanded records of a
\* line lie after its primary match, their columns increase, no two of the
\* occurrences they stand for overlap, and they are the records regex mode
\* gives for the same line.  Stated for case-sensitive matching, where the
\* search is text.find(pattern, move_cnum) and str.lower() plays no part.
C17_LiteralExpansionNoOverlap ==
    [][(/\ ctx.source = "ag" /\ ctx.submatch = "first" /\ ctx.regex = "0"
        /\ ctx.case_sensitive = "1") =>
          LET added == LineAdded(result, result')
          IN  /\ \A i \in 2..Len(added) : added[i].cnum > added[1].cnum
              /\ \A i, j \in 2..Len(added) :
                     i < j => added[j].cnum >= added[i].cnum + Utf8Len(ctx.pattern)
              /\ (added # <<>> /\ DecodePrefix(added[1].text, added[1].cnum - 1) # -1)
                     => result' = RegexResult(LineFile(result, result'), added[1])]_vars

\* C18: for a line whose primary match is reported at the byte column of an
\* occurrence of the pattern, the conversion of that column to a character
\* offset does not fail, and every expanded record has the byte column of an
\* occurrence of the pattern in the line (the UTF-8 length of the text before
\* the match start, plus 1), greater than the column of the primary match;
\* so every column lies on a character boundary.
C18_ColumnsOnCharacterBoundaries ==
    [][ctx.source = "ag" =>
          LET added == LineAdded(result, result')
          IN  (added # <<>> /\ added[1].text = fileText
                  /\ added[1].cnum \in ByteColumns) =>
                  /\ ~(pc' = "raised" /\ ret'.exc = "UnicodeDecodeError")
                  /\ \A i \in 1..Len(added) :
                         DecodePrefix(fileText, added[i].cnum - 1) # -1
                  /\ \A i \in 2..Len(added) :
                         /\ added[i].cnum \in ByteColumns
                         /\ added[i].cnum > added[1].cnum]_vars

\* ------------------------------------------ properties: pattern normalizer
\* The case flags a flag list holds.
CaseFlagsIn(cmdargs) == {cmdargs[j] : j \in 1..Len(cmdargs)} \cap CaseFlags

\* The length of the maximal run of backslashes that ends just before
\* position j of p (positions counted from 1).
RunBefore(p, j) ==
    CHOOSE k \in 0..j - 1 :
        /\ \A m \in j - k..j - 1 : p[m] = Backslash
        /\ (k = j - 1 \/ p[j - k - 1] # Backslash)

\* Position j of p holds a control directive: the letter C or c after a
\* maximal run of an odd number of backslashes.
IsDirective(p, j) == p[j] \in {"C", "c"} /\ RunBefore(p, j) % 2 = 1

\* p holds the control directive of this letter.
HasDirective(p, letter) ==
    \E j \in 1..Len(p) : p[j] = letter /\ IsDirective(p, j)

\* p without its directive letters and without the backslash just before
\* each of them, everything else in place and in order.
RECURSIVE WithoutDirectives(_, _)
WithoutDirectives(p, j) ==
    IF j > Len(p) THEN <<>>
    ELSE (IF IsDirective(p, j) \/ (j < Len(p) /\ IsDirective(p, j + 1))
          THEN <<>> ELSE <<p[j]>>) \o WithoutDirectives(p, j + 1)

\* C12: for rg and rgnvim the flag list left by lines 123-186 holds at most
\* one of --case-sensitive, --ignore-case and --smart-case.
C12_AtMostOneCaseFlag ==
    (norm.pc = "done" /\ IsRg(norm.source)) =>
        Cardinality(CaseFlagsIn(norm.cmdargs)) <= 1

\* C13: for rg and rgnvim a pattern with the directive C (and not c) leaves
\* --case-sensitive as the only case flag of the flag list, and a pattern with
\* the directive c (and not C) leaves --ignore-case as the only one, whatever
\* case_sensitive and the initial flag list are.
C13_DirectiveWins ==
    (norm.pc = "done" /\ IsRg(norm.source)) =>
        /\ (HasDirective(norm.raw, "C") /\ ~HasDirective(norm.raw, "c"))
               => CaseFlagsIn(norm.cmdargs) = {"--case-sensitive"}
        /\ (HasDirective(norm.raw, "c") /\ ~HasDirective(norm.raw, "C"))
               => CaseFlagsIn(norm.cmdargs) = {"--ignore-case"}

\* C16: for rg and rgnvim the normalized pattern is the raw pattern in which
\* every run of an odd number n of backslashes followed by C or c became n-1
\* backslashes without the letter, everything else unchanged and in order;
\* for another backend the pattern is the raw pattern.
C16_PatternRewrite ==
    norm.pc \in {"flags", "done"} =>
        norm.pattern = IF IsRg(norm.source) THEN WithoutDirectives(norm.raw, 1)
                       ELSE norm.raw

\* C16 witness: a run of three backslashes before C was rewritten to two.
C16_Witness ==
    /\ norm.pc = "done"
    /\ norm.source = "rg"
    /\ norm.raw = <<Backslash, Backslash, Backslash, "C">>
    /\ norm.pattern = <<Backslash, Backslash>>

\* ------------------------------------------------ properties: output pipes
\* search() waits in a read of a pipe that is empty and still open.
ReadBlocked ==
    \/ pipes.pc = "readline" /\ pipes.stdout = 0 /\ ~pipes.exited
    \/ pipes.pc = "stderr_readline" /\ pipes.stderr = 0 /\ ~pipes.exited

\* The child waits in a write to a pipe that is full.
WriteBlocked ==
    /\ pipes.script # <<>>
    /\ \/ Head(pipes.script) = "out" /\ pipes.stdout = PipeCap
       \/ Head(pipes.script) = "err" /\ pipes.stderr = PipeCap

\* C20: the drain loop never blocks forever on a read of the output or error
\* stream: search() is never waiting in a read of an empty pipe while the
\* child, which writes a finite output and exits once its pipes are read, is
\* waiting to write to the other pipe, which is full.
C20_DrainLoopNeverBlocksForever == ~(ReadBlocked /\ WriteBlocked)

\* ------------------------------------- properties: argument-list transfer
\* C7: search() and the child never block each other on full pipes: search()
\* is never stuck in the write of the file list (data left, stdin pipe full)
\* while the child is stuck printing (output left, stdout pipe full, nobody
\* reading).
C7_NoPipeDeadlock ==
    ~(/\ pipes.pc = "write"
      /\ pipes.data > 0
      /\ pipes.stdin = PipeCap
      /\ pipes.pending > 0
      /\ pipes.stdout = PipeCap)

====
